---- MODULE Spec2Model ----
(***************************************************************************)
(* Model of model/model_training/utils/ppo_utils.py: the rollout loop of   *)
(* CustomPPOTrainer (decode, make_experience) and the remote reference     *)
(* scorer triton_server_ref_model.                                          *)
(*                                                                         *)
(* Token ids are small integers; a decoded text is a sequence of text      *)
(* pieces (one-character strings, and the end marker "</s>" as one piece).  *)
(* Scores, log-probabilities and the KL coefficient are integers            *)
(* (fixed-point units).  Indices into tensors are 0-based, as in the code. *)
(***************************************************************************)
EXTENDS Integers, Sequences, FiniteSets, TLC

\* ------------------------------------------------------------- bounds
MaxOutLen == 3      \* generated tokens per sample, decode specification
MaxRefBatch == 17   \* rows of a batch handed to ref_model
MaxRollouts == 2    \* num_rollouts of a make_experience call
MaxBatch == 2       \* examples per prompt batch (chunk_size)
MaxPrompts == 3     \* prompts handed to CustomPromptPipeline
MaxCalls == 2       \* make_experience calls on one trainer

\* ---------------------------------------------------------- tokenizer
PAD_TOKEN_ID == 0
eos_token_id == 2
eos_token == "</s>"

\* Ordinary vocabulary: 3 "a", 4 "b", 5 " ", 6 "ab" (a merged token).
TextTokens == {3, 4, 5, 6}

Min(a, b) == IF a <= b THEN a ELSE b
Max(a, b) == IF a >= b THEN a ELSE b

\* Python slicing on 0-based sequences: s[lo:hi], bounds clamped.
Slice(s, lo, hi) == SubSeq(s, Max(lo, 0) + 1, Min(hi, Len(s)))

\* tensor[tensor != PAD_TOKEN_ID]
DropPad(s) == SelectSeq(s, LAMBDA t : t # PAD_TOKEN_ID)

\* The text of one token, skip_special_tokens=False.
TokenText(t) ==
  CASE t = eos_token_id -> <<eos_token>>
    [] t = 3 -> <<"a">>
    [] t = 4 -> <<"b">>
    [] t = 5 -> <<" ">>
    [] t = 6 -> <<"a", "b">>
    [] OTHER -> <<"<|padding|>">>

RECURSIVE TokenizerDecode(_)
TokenizerDecode(toks) ==
  IF toks = <<>> THEN <<>>
  ELSE TokenText(Head(toks)) \o TokenizerDecode(Tail(toks))

\* self.tokenizer(text).input_ids: longest match first, no special tokens added.
RECURSIVE TokenizerEncode(_)
TokenizerEncode(text) ==
  IF text = <<>> THEN <<>>
  ELSE IF Len(text) >= 2 /\ text[1] = "a" /\ text[2] = "b"
    THEN <<6>> \o TokenizerEncode(SubSeq(text, 3, Len(text)))
  ELSE LET t == CASE text[1] = eos_token -> eos_token_id
                  [] text[1] = "a" -> 3
                  [] text[1] = "b" -> 4
                  [] text[1] = " " -> 5
                  [] OTHER -> PAD_TOKEN_ID
       IN <<t>> \o TokenizerEncode(Tail(text))

\* Occurrences of an item in a sequence.
CountIn(s, x) == Cardinality({i \in 1..Len(s) : s[i] = x})

\* ------------------------------------------------------------- decode
\* str.find: the least 0-based index at which stop occurs in text, or -1.
Find(text, stop) ==
  LET hits == {i \in 0..(Len(text) - Len(stop)) :
                 SubSeq(text, i + 1, i + Len(stop)) = stop}
  IN IF hits = {} THEN -1 ELSE CHOOSE i \in hits : \A j \in hits : i <= j

\* str.rstrip(): trailing whitespace removed.
RECURSIVE RStrip(_)
RStrip(text) ==
  IF text # <<>> /\ text[Len(text)] = " "
    THEN RStrip(SubSeq(text, 1, Len(text) - 1))
    ELSE text

\* The loop over self.stop_sequences: every stop is searched in the output as
\* the stops before it left it.
RECURSIVE TrimStops(_, _, _)
TrimStops(str_output, trimmed, stops) ==
  IF stops = <<>> THEN [str_output |-> str_output, trimmed |-> trimmed]
  ELSE LET stop_ix == Find(str_output, Head(stops))
       IN IF stop_ix >= 0
            THEN TrimStops(RStrip(Slice(str_output, 0, stop_ix)), TRUE, Tail(stops))
            ELSE TrimStops(str_output, trimmed, Tail(stops))

\* Whether decode appends the end marker.
AppendsEos(trimmed, sample) ==
  trimmed \/ sample[Len(sample)] # eos_token_id

\* Mutant of DecodeOne: the sample text is decoded from the whole sample
\* instead of being put together from the prompt and the output.
DecodeOneWholeSample(prompt, sample, prompt_size, stop_sequences) ==
  LET str_prompt == TokenizerDecode(DropPad(Slice(prompt, 0, prompt_size)))
      untrimmed == TokenizerDecode(DropPad(Slice(sample, prompt_size, Len(sample))))
      t == TrimStops(untrimmed, FALSE, stop_sequences)
      str_output == IF AppendsEos(t.trimmed, sample)
                      THEN t.str_output \o <<eos_token>>
                      ELSE t.str_output
  IN [str_sample |-> TokenizerDecode(DropPad(sample)),
      str_prompt |-> str_prompt,
      str_output |-> str_output,
      untrimmed |-> untrimmed,
      before_eos |-> t.str_output,
      trimmed |-> t.trimmed]

\* decode of one (prompt, sample, prompt_size), causal architecture.
DecodeOne(prompt, sample, prompt_size, stop_sequences) ==
  LET str_prompt == TokenizerDecode(DropPad(Slice(prompt, 0, prompt_size)))
      untrimmed == TokenizerDecode(DropPad(Slice(sample, prompt_size, Len(sample))))
      t == TrimStops(untrimmed, FALSE, stop_sequences)
      str_output == IF AppendsEos(t.trimmed, sample)
                      THEN t.str_output \o <<eos_token>>
                      ELSE t.str_output
  IN [str_sample |-> str_prompt \o str_output,
      str_prompt |-> str_prompt,
      str_output |-> str_output,
      untrimmed |-> untrimmed,
      before_eos |-> t.str_output,
      trimmed |-> t.trimmed]

\* Mutant of DecodeError: the seq2seq branch falls through to decoding.
DecodeErrorNone(model_arch_type, samples) == "none"

\* Lines 552-554: the first pass of the loop over the batch raises for a
\* seq2seq model; an empty batch never enters the loop.
DecodeError(model_arch_type, samples) ==
  IF model_arch_type = "seq2seq" /\ samples # <<>>
    THEN "NotImplementedError" ELSE "none"

\* get_arch(config): raises for a seq2seq model, otherwise loads the causal
\* model with its value head.
GetArch(model_arch_type) ==
  IF model_arch_type = "seq2seq"
    THEN [error |-> "NotImplementedError", model |-> "none"]
    ELSE [error |-> "none", model |-> "CustomCausalLMHydraWithValueHead"]

\* decode over a batch: the three lists, index-aligned.
Decode(prompts, samples, prompt_sizes, stop_sequences) ==
  [i \in 1..Len(samples) |->
     DecodeOne(prompts[i], samples[i], prompt_sizes[i], stop_sequences)]

\* ---------------------------------------------------------- ref_model
\* os.environ.get("TRITON_HOST_REF"): unset (None), or a value given by the
\* parts its split("/") yields.
NoHost == [set |-> FALSE, parts |-> <<>>]
NoClient == [created |-> FALSE]

\* Mutant of TritonServerRefModel: an unset host falls back to a default endpoint.
TritonServerRefModelDefaultHost(triton_host, optimized) ==
  IF ~triton_host.set
    THEN [error |-> "none", client |-> [created |-> TRUE, url |-> "localhost"],
          triton_model |-> "default"]
  ELSE IF Len(triton_host.parts) # 2
    THEN [error |-> "ValueError", client |-> NoClient, triton_model |-> ""]
  ELSE [error |-> "none",
        client |-> [created |-> TRUE, url |-> triton_host.parts[1]],
        triton_model |-> triton_host.parts[2]]

\* triton_server_ref_model(), up to the definition of the closure.  The assert
\* is skipped by an optimized interpreter (python -O); None.split then raises.
TritonServerRefModel(triton_host, optimized) ==
  IF ~triton_host.set
    THEN [error |-> IF optimized THEN "AttributeError" ELSE "AssertionError",
          client |-> NoClient, triton_model |-> ""]
  ELSE IF Len(triton_host.parts) # 2
    THEN [error |-> "ValueError", client |-> NoClient, triton_model |-> ""]
  ELSE [error |-> "none",
        client |-> [created |-> TRUE, url |-> triton_host.parts[1]],
        triton_model |-> triton_host.parts[2]]

mbs == 8

CeilDiv(a, b) == (a + b - 1) \div b

\* Mutant of NumRequests: the last, partial micro-batch is not requested.
NumRequestsFloor(n) == n \div mbs

\* range(math.ceil(len(all_tokens) / mbs))
NumRequests(n) == CeilDiv(n, mbs)

\* all_tokens[batch_ixs] with batch_ixs = slice(i * mbs, (i + 1) * mbs)
BatchIxs(rows, i) == Slice(rows, i * mbs, (i + 1) * mbs)

\* The inference server: one logits row per request row, a fixed function of
\* that row's token ids and mask.
ServerRow(ids, mask) ==
  [j \in 1..Len(ids) |-> IF mask[j] = 1 THEN 10 + ids[j] ELSE 20 + ids[j]]

ClientInfer(req) ==
  [k \in 1..Len(req.input_ids) |-> ServerRow(req.input_ids[k], req.attention_mask[k])]

\* torch.cat(out, dim=0)
RECURSIVE Cat(_)
Cat(out) == IF out = <<>> THEN <<>> ELSE Head(out) \o Cat(Tail(out))


\* ------------------------------------------------- scores and rewards
\* Float scores are fixed-point integers, One units to 1.0.  The float
\* specials are integers beyond every finite value of the model: Inf, -Inf
\* and NaN; Eps is a positive standard deviation too small to represent.
One == 2
Inf == 1000 * One
NaN == Inf + 1
Eps == 0 - 1

IsFinite(x) == -Inf < x /\ x < Inf

Sum(xs) == LET S[n \in 0..Len(xs)] == IF n = 0 THEN 0 ELSE S[n - 1] + xs[n] IN S[Len(xs)]
SumSq(xs) ==
  LET S[n \in 0..Len(xs)] == IF n = 0 THEN 0 ELSE S[n - 1] + xs[n] * xs[n] IN S[Len(xs)]

\* The integer square root (floor).
ISqrt(v) == CHOOSE r \in 0..v : r * r <= v /\ (r + 1) * (r + 1) > v

\* Truncating quotient: the nearest fixed-point value towards zero.
Quot(a, b) == IF a >= 0 THEN a \div b ELSE -((-a) \div b)

\* The unbiased standard deviation of count values with the given sums
\* (torch.Tensor.std()): NaN for a single value.
StdOf(count, sum, sumsq) ==
  IF count <= 1 THEN NaN
  ELSE ISqrt((count * sumsq - sum * sum) \div (count * (count - 1)))

\* scores.std() of the first batch, kept as self.ref_std.
RefStd(scores) == StdOf(Len(scores), Sum(scores), SumSq(scores))

\* self.running_moments.update(scores): a streaming (count, sum, sum of
\* squares) of every raw score seen.
RunningMomentsUpdate(m, scores) ==
  [count |-> m.count + Len(scores),
   sum |-> m.sum + Sum(scores),
   sumsq |-> m.sumsq + SumSq(scores)]

\* self.running_moments.std: infinite after a single score (count - 1 = 0),
\* tiny and positive when all scores seen are equal.
RunningStd(m) ==
  IF m.count <= 1 THEN Inf
  ELSE IF StdOf(m.count, m.sum, m.sumsq) = 0 THEN Eps
  ELSE StdOf(m.count, m.sum, m.sumsq)

\* x / d in float arithmetic, x finite.
Div(x, d) ==
  CASE d = NaN -> NaN
    [] d = Inf -> 0
    [] d = Eps -> IF x > 0 THEN Inf ELSE IF x < 0 THEN -Inf ELSE 0
    [] d = 0 -> IF x > 0 THEN Inf ELSE IF x < 0 THEN -Inf ELSE NaN
    [] OTHER -> Quot(x * One, d)

\* Mutant of ScaleScores: an unknown mode scales by the running std.
ScaleScoresDefaultRunning(scores, scale_reward, running_std, ref_std) ==
  CASE scale_reward = "ref" -> [i \in 1..Len(scores) |-> Div(scores[i], ref_std)]
    [] OTHER -> [i \in 1..Len(scores) |-> Div(scores[i], running_std)]

\* scores /= std, by config.method.scale_reward.
ScaleScores(scores, scale_reward, running_std, ref_std) ==
  CASE scale_reward = "running" -> [i \in 1..Len(scores) |-> Div(scores[i], running_std)]
    [] scale_reward = "ref" -> [i \in 1..Len(scores) |-> Div(scores[i], ref_std)]
    [] OTHER -> scores

\* torch.clip(x, -c, c) of one value: NaN stays NaN.
Clip(x, c) ==
  IF x = NaN THEN NaN
  ELSE IF x < -c THEN -c ELSE IF x > c THEN c ELSE x

\* if clip_reward: scores = torch.clip(scores, -clip_reward, clip_reward)
ClipScores(scores, clip_reward) ==
  IF clip_reward # 0 THEN [i \in 1..Len(scores) |-> Clip(scores[i], clip_reward)]
  ELSE scores

\* a + b in float arithmetic, a finite.
AddVal(a, b) == IF IsFinite(b) THEN a + b ELSE b

\* The reward function: one score per example, a fixed function of its texts.
RewardOf(str_sample, str_prompt, str_output) ==
  One * (3 * CountIn(str_output, "a") - 10 * CountIn(str_output, " ")
         + CountIn(str_output, eos_token))

RewardFn(decoded) ==
  [i \in 1..Len(decoded) |->
     RewardOf(decoded[i].str_sample, decoded[i].str_prompt, decoded[i].str_output)]

\* all_scores.reshape(num_processes, -1).unbind(): num_processes rows of equal size.
Reshape(all_scores, num_processes) ==
  LET n == Len(all_scores) \div num_processes
  IN [w \in 1..num_processes |-> [i \in 1..n |-> all_scores[(w - 1) * n + i]]]

\* ------------------------------------------------- padding and gather
\* F.pad(x, (0, width - len(x)), value=pad): padding on the right.
PadRight(row, width) == row \o [j \in 1..(width - Len(row)) |-> PAD_TOKEN_ID]

MaxLen(rows) ==
  IF rows = <<>> THEN 0
  ELSE CHOOSE m \in {Len(rows[i]) : i \in 1..Len(rows)} :
         \A i \in 1..Len(rows) : Len(rows[i]) <= m

PadRows(rows, width) == [i \in 1..Len(rows) |-> PadRight(rows[i], width)]

\* accelerator.pad_across_processes(x, dim=1, pad_first=False) followed by
\* accelerator.gather: every worker's rows padded to the widest worker's width
\* and concatenated in rank order.  posted[w] is worker w-1's tensor.
Gather(posted) ==
  LET width == CHOOSE m \in {Len(posted[w][1]) : w \in 1..Len(posted)} :
                 \A w \in 1..Len(posted) : Len(posted[w][1]) <= m
  IN Cat([w \in 1..Len(posted) |-> PadRows(posted[w], width)])

\* ------------------------------------------------------ forward passes
\* all_tokens.not_equal(pad_token_id).long()
AttentionMask(toks) == [j \in 1..Len(toks) |-> IF toks[j] # PAD_TOKEN_ID THEN 1 ELSE 0]

\* The policy's and the reference model's log-probability of token j+1 at
\* 0-based position j (logprobs_of_labels(logits[:, :-1, :], all_tokens[:, 1:])),
\* and the value head's output at position j: fixed functions of the tokens.
PolicyLogprob(toks, j) == -(1 + ((toks[j + 2] + 2 * j) % 3))
RefLogprob(toks, j) == -(1 + ((2 * toks[j + 2] + j) % 4))
ValueAt(toks, j) == ((toks[j + 1] + j) % 5) - 2

\* Rows indexed from 0 are stored as sequences: position j is element j + 1.
Logprobs(toks) == [j1 \in 1..(Len(toks) - 1) |-> PolicyLogprob(toks, j1 - 1)]
RefLogprobs(toks) == [j1 \in 1..(Len(toks) - 1) |-> RefLogprob(toks, j1 - 1)]
\* values.cpu()[:, :-1]
Values(toks) == [j1 \in 1..(Len(toks) - 1) |-> ValueAt(toks, j1 - 1)]

\* log_ratio = (logprobs - ref_logprobs) * attention_mask[:, :-1]
LogRatio(toks) ==
  [j1 \in 1..(Len(toks) - 1) |->
     (Logprobs(toks)[j1] - RefLogprobs(toks)[j1]) * AttentionMask(toks)[j1]]

\* start = prompt_tensors.shape[1] - 1
Start(prompt_width) == prompt_width - 1

\* ends = start + attention_mask[:, start:].sum(1) + 1
Ends(start, mask) == start + Sum(Slice(mask, start, Len(mask))) + 1

\* Mutant of KlPenalty: the coefficient of the first call, whatever the
\* controller holds now.
KlPenaltyFirstValue(kl_value, log_ratio) == [j1 \in 1..Len(log_ratio) |-> 2 * (-log_ratio[j1])]

\* kl_penalty = self.kl_ctl.value * -log_ratio
KlPenalty(kl_value, log_ratio) == [j1 \in 1..Len(log_ratio) |-> kl_value * (-log_ratio[j1])]

\* Mutant of Rewards: the score is added at the first position of the slice.
RewardsScoreFirst(kl_slice, score) ==
  [j1 \in 1..Len(kl_slice) |->
     IF j1 = 1 THEN AddVal(kl_slice[j1], score) ELSE kl_slice[j1]]

\* rewards = kl_penalty[sample_idx]; rewards[-1] += scores[sample_idx]
Rewards(kl_slice, score) ==
  [j1 \in 1..Len(kl_slice) |->
     IF j1 = Len(kl_slice) THEN AddVal(kl_slice[j1], score) ELSE kl_slice[j1]]

\* One PPORLElement of the for loop over sample_idx.
Element(prompt, sample_output, toks, mask, start, score, kl_value) ==
  LET ends == Ends(start, mask)
  IN [query_tensor |-> prompt,
      response_tensor |-> sample_output,
      logprobs |-> Slice(Logprobs(toks), start, ends),
      values |-> Slice(Values(toks), start, ends),
      rewards |-> Rewards(Slice(KlPenalty(kl_value, LogRatio(toks)), start, ends), score)]

\* --------------------------------------------------------------- state
VARIABLES
  dec_args,      \* arguments of the last decode call
  dec_ret,       \* what it returned
  triton_host,   \* the environment's TRITON_HOST_REF
  client,        \* the InferenceServerClient of triton_server_ref_model
  triton_model,  \* the model name the closure sends with every request
  ref_error,     \* the exception triton_server_ref_model or ref_model raised
  ref_pc,        \* "unbuilt", "idle", "loop", "returned", "raised"
  ref_tokens,    \* ref_model: all_tokens
  ref_masks,     \* ref_model: attention_masks
  ref_i,         \* ref_model: loop index i
  ref_out,       \* ref_model: out, the list of per-request logits
  ref_requests,  \* every request client.infer received, in order
  ref_ret,       \* ref_model: the returned tensor
  config,        \* the trainer's configuration and the call's num_rollouts
  model,         \* what get_arch(config) gave when the trainer was set up
  calls,         \* the make_experience calls begun on this trainer
  pc,            \* make_experience, per worker: where the worker is
  iter,          \* per worker: rollout iterations begun in this call
  loc,           \* per worker: the local tensors of its current iteration
  gather_buf,    \* per worker: what it handed to pad_across_processes/gather
  scatter_buf,   \* what the source rank handed to torch.distributed.scatter
  ppo_rl_elements, \* per worker: the elements collected in this call
  running_moments, \* per worker: self.running_moments
  ref_stats,     \* per worker: self.ref_mean, self.ref_std (set: not None)
  kl_ctl,        \* per worker: self.kl_ctl.value
  reward_calls,  \* every invocation of reward_fn, in order
  reduce_entered, \* the workers that entered the final all_reduce
  stats_logged,  \* per worker: the stats handed to accelerator.log
  ref_log,       \* per worker: the micro-batches requested from the reference server
  error,         \* per worker: the exception that left make_experience, or "none"
  trace,         \* per worker: the collectives, log and push of the call, in order
  store,         \* per worker: the push_to_store calls, each with its elements
  pipe_pc,       \* CustomPromptPipeline.__init__: "new", "loop", "build", "done", "raised"
  pipe_args,     \* its arguments: the prompts, max_prompt_length, the tokenizer's sides
  prompts_tokens_, \* model_inputs["input_ids"]
  pipe_ix,       \* the for loop's position in prompts_tokens_ (0-based)
  pipe_warnings, \* the warnings.warn calls made
  pipe_prompts,  \* self.prompts
  pipe_error     \* the exception __init__ raised, or "none"

decVars == <<dec_args, dec_ret>>
refVars == <<triton_host, client, triton_model, ref_error, ref_pc, ref_tokens,
             ref_masks, ref_i, ref_out, ref_requests, ref_ret>>
expVars == <<config, model, calls, pc, iter, loc, gather_buf, scatter_buf, ppo_rl_elements,
             running_moments, ref_stats, kl_ctl, reward_calls, reduce_entered,
             stats_logged, ref_log, error, trace, store>>
pipeVars == <<pipe_pc, pipe_args, prompts_tokens_, pipe_ix, pipe_warnings, pipe_prompts,
              pipe_error>>
vars == <<decVars, refVars, expVars, pipeVars>>

NoCall == [called |-> FALSE]

InitDec == dec_args = NoCall /\ dec_ret = NoCall
\* A trainer whose construction succeeded: the client exists, no call yet.
InitRef ==
  /\ triton_host = [set |-> TRUE, parts |-> <<"triton:8001", "ref">>]
  /\ client = [created |-> TRUE, url |-> "triton:8001"]
  /\ triton_model = "ref"
  /\ ref_error = "none"
  /\ ref_pc = "idle"
  /\ ref_tokens = <<>>
  /\ ref_masks = <<>>
  /\ ref_i = 0
  /\ ref_out = <<>>
  /\ ref_requests = <<>>
  /\ ref_ret = <<>>


\* No prompt pipeline under construction.
InitPipe ==
  /\ pipe_pc = "new"
  /\ pipe_args = [called |-> FALSE]
  /\ prompts_tokens_ = <<>>
  /\ pipe_ix = 0
  /\ pipe_warnings = <<>>
  /\ pipe_prompts = <<>>
  /\ pipe_error = "none"

\* ----------------------------------------------------- make_experience
\* Configurations: (num_processes, torch.distributed.is_initialized()).
Deployments == {<<1, FALSE>>, <<1, TRUE>>, <<2, TRUE>>}

ExpConfigs ==
  [deployment : Deployments,
   num_rollouts : 1..MaxRollouts,
   chunk_size : 1..MaxBatch,
   scale_reward : {"running", "ref", "ignored"},
   cliprange_reward : {0, 2 * One},
   padding_side : {"left", "right"},
   stop_sequences : {<<<<"b">>>>},
   frozen_head : {FALSE},
   model_arch_type : {"causal", "seq2seq"}]

num_processes == config.deployment[1]
dist_initialized == config.deployment[2]
Workers == 0..(num_processes - 1)

\* Mutant of IsMainProcess: every worker takes the main process's branch.
IsMainProcessAll(r) == TRUE

\* accelerator.is_main_process
IsMainProcess(r) == r = 0

\* Mutant of LoopContinues: one more iteration once the target is just met.
LoopContinuesLe(n_elements, num_rollouts) == n_elements <= num_rollouts

\* while len(ppo_rl_elements) < num_rollouts
LoopContinues(n_elements, num_rollouts) == n_elements < num_rollouts

\* The prompt dataset: the n-th prompt drawn, two tokens wide, padded on the
\* tokenizer's padding side.
PromptOf(side, n) ==
  IF side = "left"
    THEN (IF n % 2 = 0 THEN <<PAD_TOKEN_ID, 3>> ELSE <<4, 3>>)
    ELSE (IF n % 2 = 0 THEN <<3, PAD_TOKEN_ID>> ELSE <<3, 4>>)

\* next(self.prompt_iterator): worker r's k-th batch.
NextBatch(side, r, k, B) == [i \in 1..B |-> PromptOf(side, r + k + i)]

\* What generation can append to a prompt: it always ends with the end token
\* (forced_eos_token_id), after at most four new tokens.
Responses == <<<<eos_token_id>>, <<3, 5, 3, eos_token_id>>, <<3, 4, eos_token_id>>>>

\* self.generate(**batch): each prompt followed by its sampled response, the
\* finished rows padded to the longest.
Generate(prompts, seed) ==
  LET rows == [i \in 1..Len(prompts) |->
                 prompts[i] \o Responses[((seed + i - 2) % Len(Responses)) + 1]]
  IN PadRows(rows, MaxLen(rows))

NoLoc ==
  [prompt_tensors |-> <<>>, samples |-> <<>>, all_scores |-> <<>>,
   raw_scores |-> <<>>, scaled_scores |-> <<>>, scores |-> <<>>,
   sample_outputs |-> <<>>, all_tokens |-> <<>>, log_ratio |-> <<>>, start |-> 0]

NoPost == [iter |-> 0, samples |-> <<>>, prompts |-> <<>>, prompt_sizes |-> <<>>]

InitExpFor(c) ==
  LET W == 0..(c.deployment[1] - 1)
  IN /\ config = c
     /\ model = GetArch(c.model_arch_type)
     /\ calls = 1
     /\ pc = [r \in W |-> "generate"]
     /\ iter = [r \in W |-> 0]
     /\ loc = [r \in W |-> NoLoc]
     /\ gather_buf = [r \in W |-> NoPost]
     /\ scatter_buf = [iter |-> 0, scatter_list |-> <<>>]
     /\ ppo_rl_elements = [r \in W |-> <<>>]
     /\ running_moments = [r \in W |-> [count |-> 0, sum |-> 0, sumsq |-> 0]]
     /\ ref_stats = [r \in W |-> [set |-> FALSE, mean |-> 0, std |-> 0]]
     /\ kl_ctl = [r \in W |-> 2]
     /\ reward_calls = <<>>
     /\ reduce_entered = {}
     /\ stats_logged = [r \in W |-> <<>>]
     /\ ref_log = [r \in W |-> <<>>]
     /\ error = [r \in W |-> "none"]
     /\ trace = [r \in W |-> <<>>]
     /\ store = [r \in W |-> <<>>]

\* The pipeline at rest, for the specifications of decode and ref_model alone.
InitExpIdle ==
  InitExpFor([deployment |-> <<1, FALSE>>, num_rollouts |-> 1, chunk_size |-> 1,
              scale_reward |-> "ignored", cliprange_reward |-> 0,
              padding_side |-> "left", stop_sequences |-> <<>>,
              frozen_head |-> FALSE, model_arch_type |-> "causal"])

InitExp == \E c \in ExpConfigs : InitExpFor(c)

\* Lines 728-730: the three gathers of an iteration, in the order of the calls.
GatherOps(it) ==
  <<[op |-> "gather", of |-> "samples", iter |-> it],
    [op |-> "gather", of |-> "prompts", iter |-> it],
    [op |-> "gather", of |-> "prompt_sizes", iter |-> it]>>

\* Mutant of ScatterOps: the scatter is called whatever the runtime.
ScatterOpsAlways(it) == <<[op |-> "scatter", of |-> "scores", iter |-> it]>>

\* Lines 753-757: the scatter is called only under torch.distributed.
ScatterOps(it) ==
  IF dist_initialized THEN <<[op |-> "scatter", of |-> "scores", iter |-> it]>>
  ELSE <<>>

\* Lines 707-730: the while test passed; draw the batch, generate, and hand
\* samples, prompts and prompt sizes to pad_across_processes and gather.
GenerateStep(r) ==
  /\ pc[r] = "generate"
  /\ \E seed \in 1..Len(Responses) :
       LET prompt_tensors == NextBatch(config.padding_side, r, iter[r], config.chunk_size)
           samples == Generate(prompt_tensors, seed)
           prompt_sizes == [i \in 1..Len(prompt_tensors) |-> Len(prompt_tensors[1])]
       IN /\ loc' = [loc EXCEPT ![r] = [NoLoc EXCEPT !.prompt_tensors = prompt_tensors,
                                                      !.samples = samples]]
          /\ gather_buf' = [gather_buf EXCEPT ![r] =
                              [iter |-> iter[r] + 1, samples |-> samples,
                               prompts |-> prompt_tensors, prompt_sizes |-> prompt_sizes]]
  /\ iter' = [iter EXCEPT ![r] = iter[r] + 1]
  /\ trace' = [trace EXCEPT ![r] = @ \o GatherOps(iter[r] + 1)]
  /\ pc' = [pc EXCEPT ![r] = "gather"]
  /\ UNCHANGED <<config, model, calls, scatter_buf, ppo_rl_elements, running_moments, ref_stats,
                 kl_ctl, reward_calls, reduce_entered, stats_logged, ref_log, error,
                 store, decVars, refVars, pipeVars>>

\* Lines 728-730: the gathers of worker r's iteration return once every
\* worker has entered them.
GatherReady(r) == \A q \in Workers : gather_buf[q].iter >= iter[r]

\* Lines 728-751: the gathers complete once every worker has handed in its
\* tensors; the main process decodes the gathered batch, calls reward_fn once
\* and splits the scores into one row per worker; the others hold None.
GatherStep(r) ==
  /\ pc[r] = "gather"
  /\ GatherReady(r)
  /\ LET posted(f) == [w \in 1..num_processes |-> gather_buf[w - 1][f]]
         gathered_samples == Gather(posted("samples"))
         gathered_prompts == Gather(posted("prompts"))
         gathered_prompt_sizes == Cat(posted("prompt_sizes"))
         decoded == Decode(gathered_prompts, gathered_samples,
                           gathered_prompt_sizes, config.stop_sequences)
         all_scores == RewardFn(decoded)
         raised == DecodeError(config.model_arch_type, gathered_samples)
     IN IF ~IsMainProcess(r)
          THEN /\ loc' = [loc EXCEPT ![r].all_scores = <<>>]
               /\ pc' = [pc EXCEPT ![r] = "scatter"]
               /\ UNCHANGED <<reward_calls, error>>
        ELSE IF raised # "none"
          THEN /\ error' = [error EXCEPT ![r] = raised]
               /\ pc' = [pc EXCEPT ![r] = "raised"]
               /\ UNCHANGED <<reward_calls, loc>>
        ELSE /\ reward_calls' = Append(reward_calls,
                    [worker |-> r, iter |-> iter[r], samples |-> gathered_samples,
                     str_samples |-> [i \in 1..Len(decoded) |-> decoded[i].str_sample],
                     str_prompts |-> [i \in 1..Len(decoded) |-> decoded[i].str_prompt],
                     outputs |-> [i \in 1..Len(decoded) |-> decoded[i].str_output],
                     all_scores |-> all_scores,
                     gathered_from |-> {q \in Workers : gather_buf[q].iter = iter[r]}])
             /\ loc' = [loc EXCEPT ![r].all_scores = Reshape(all_scores, num_processes)]
             /\ pc' = [pc EXCEPT ![r] = "scatter"]
             /\ UNCHANGED error
  /\ UNCHANGED <<config, model, calls, iter, gather_buf, scatter_buf, ppo_rl_elements,
                 running_moments, ref_stats, kl_ctl, reduce_entered, stats_logged,
                 ref_log, trace, store,
                 decVars, refVars, pipeVars>>

\* Mutant of ScatteredScores: every rank is handed the first row.
ScatteredScoresFirstRow(r) ==
  IF dist_initialized
    THEN (IF r = 0 THEN loc[r].all_scores[1] ELSE scatter_buf.scatter_list[1])
    ELSE loc[r].all_scores[1]

\* Lines 753-757: the scores of this worker.  Under torch.distributed rank 0
\* is the source of the scatter and every other rank receives its row once
\* rank 0 has sent; otherwise the worker reads row 0 of its own list.
ScatteredScores(r) ==
  IF dist_initialized
    THEN (IF r = 0 THEN loc[r].all_scores[r + 1] ELSE scatter_buf.scatter_list[r + 1])
    ELSE loc[r].all_scores[1]

\* Mutant of RefStats: the reference pair follows every batch.
RefStatsEveryBatch(ref, scores) ==
  [set |-> TRUE, mean |-> Quot(Sum(scores), Len(scores)), std |-> RefStd(scores)]

\* Lines 781-782: if self.ref_mean is None, the pair is taken from the batch.
RefStats(ref, scores) ==
  IF ref.set THEN ref
  ELSE [set |-> TRUE, mean |-> Quot(Sum(scores), Len(scores)), std |-> RefStd(scores)]

\* Mutant of Shaped: the running moments are updated after scaling and
\* clipping, with the final scores.
ShapedUpdateLast(r) ==
  LET prompt_tensors == loc[r].prompt_tensors
      samples == loc[r].samples
      n_samples == Len(samples)
      raw == ScatteredScores(r)
      decoded == Decode(prompt_tensors, samples,
                        [i \in 1..n_samples |-> Len(prompt_tensors[1])],
                        config.stop_sequences)
      outputs == [i \in 1..n_samples |-> TokenizerEncode(decoded[i].str_output)]
      sample_outputs == PadRows(outputs, MaxLen(outputs))
      new_ref == RefStats(ref_stats[r], raw)
      scaled == ScaleScores(raw, config.scale_reward, RunningStd(running_moments[r]),
                            new_ref.std)
      scores == ClipScores(scaled, config.cliprange_reward)
  IN [n_samples |-> n_samples, raw |-> raw, sample_outputs |-> sample_outputs,
      new_ref |-> new_ref,
      new_moments |-> RunningMomentsUpdate(running_moments[r], scores),
      scaled |-> scaled, scores |-> scores,
      all_tokens |-> [i \in 1..n_samples |-> prompt_tensors[i] \o sample_outputs[i]]]

\* Lines 753-796 and 831-832: what the worker computes between the scatter
\* and the forward passes: local decode and re-tokenization, reference
\* statistics, running moments, scaling, clipping, all_tokens.
Shaped(r) ==
  LET prompt_tensors == loc[r].prompt_tensors
      samples == loc[r].samples
      n_samples == Len(samples)
      raw == ScatteredScores(r)
      decoded == Decode(prompt_tensors, samples,
                        [i \in 1..n_samples |-> Len(prompt_tensors[1])],
                        config.stop_sequences)
      outputs == [i \in 1..n_samples |-> TokenizerEncode(decoded[i].str_output)]
      sample_outputs == PadRows(outputs, MaxLen(outputs))
      new_ref == RefStats(ref_stats[r], raw)
      new_moments == RunningMomentsUpdate(running_moments[r], raw)
      scaled == ScaleScores(raw, config.scale_reward, RunningStd(new_moments),
                            new_ref.std)
  IN [n_samples |-> n_samples, raw |-> raw, sample_outputs |-> sample_outputs,
      new_ref |-> new_ref, new_moments |-> new_moments, scaled |-> scaled,
      scores |-> ClipScores(scaled, config.cliprange_reward),
      all_tokens |-> [i \in 1..n_samples |-> prompt_tensors[i] \o sample_outputs[i]]]

\* Mutant of RefRequests: the last micro-batch is requested a second time.
RefRequestsRetry(it, n, last) ==
  IF config.frozen_head THEN <<>>
  ELSE [k \in 1..(last + 2) |-> [iter |-> it, i |-> IF k <= last + 1 THEN k - 1 ELSE last]]

\* Lines 839-850: the requests of one reference pass over n rows: none when
\* the model has a frozen head, otherwise micro-batches 0 .. last.
RefRequests(it, n, last) ==
  IF config.frozen_head THEN <<>>
  ELSE [k \in 1..(last + 1) |-> [iter |-> it, i |-> k - 1]]

\* The scatter completes for the source rank at once and for every other
\* rank once the source has sent this iteration's rows.
ScatterReady(r) == dist_initialized => (r = 0 \/ scatter_buf.iter = iter[r])

\* Mutant of Scattered: the source rank leaves the scatter without sending.
ScatteredNever(r) == scatter_buf

\* Line 755: what the ranks can receive once worker r has entered the scatter.
Scattered(r) ==
  IF dist_initialized /\ r = 0
    THEN [iter |-> iter[r], scatter_list |-> loc[r].all_scores]
    ELSE scatter_buf

\* Lines 753-906: the scatter and the rest of the iteration: local decode and
\* re-tokenization, reference statistics and running moments, scaling and
\* clipping, the forward passes, the slices, and one element per sample; then
\* the while test.
ScatterStep(r) ==
  /\ pc[r] = "scatter"
  /\ ScatterReady(r)
  /\ LET prompt_tensors == loc[r].prompt_tensors
         sh == Shaped(r)
         start == Start(Len(prompt_tensors[1]))
         new_elements ==
           [i \in 1..sh.n_samples |->
              Element(prompt_tensors[i], sh.sample_outputs[i], sh.all_tokens[i],
                      AttentionMask(sh.all_tokens[i]), start, sh.scores[i], kl_ctl[r])]
         raised == DecodeError(config.model_arch_type, loc[r].samples)
     IN IF raised # "none"
          \* line 759: the local decode raises
          THEN /\ error' = [error EXCEPT ![r] = raised]
               /\ pc' = [pc EXCEPT ![r] = "raised"]
               /\ UNCHANGED <<loc, ref_stats, running_moments, ref_log, ppo_rl_elements>>
        ELSE IF config.model_arch_type = "seq2seq"
          \* lines 799-800: raise after the scores were shaped
          THEN /\ error' = [error EXCEPT ![r] = "NotImplementedError"]
               /\ pc' = [pc EXCEPT ![r] = "raised"]
               /\ loc' = [loc EXCEPT ![r] =
                            [@ EXCEPT !.raw_scores = sh.raw, !.scaled_scores = sh.scaled,
                                      !.scores = sh.scores]]
               /\ ref_stats' = [ref_stats EXCEPT ![r] = sh.new_ref]
               /\ running_moments' = [running_moments EXCEPT ![r] = sh.new_moments]
               /\ UNCHANGED <<ref_log, ppo_rl_elements>>
        ELSE /\ loc' = [loc EXCEPT ![r] =
                     [@ EXCEPT !.raw_scores = sh.raw, !.scaled_scores = sh.scaled,
                               !.scores = sh.scores, !.sample_outputs = sh.sample_outputs,
                               !.all_tokens = sh.all_tokens, !.start = start,
                               !.log_ratio = [i \in 1..sh.n_samples |->
                                                LogRatio(sh.all_tokens[i])]]]
             /\ ref_stats' = [ref_stats EXCEPT ![r] = sh.new_ref]
             /\ running_moments' = [running_moments EXCEPT ![r] = sh.new_moments]
             /\ ref_log' = [ref_log EXCEPT ![r] =
                              @ \o RefRequests(iter[r], sh.n_samples,
                                               NumRequests(sh.n_samples) - 1)]
             /\ ppo_rl_elements' = [ppo_rl_elements EXCEPT ![r] = @ \o new_elements]
             /\ pc' = [pc EXCEPT ![r] =
                         IF LoopContinues(Len(ppo_rl_elements[r]) + sh.n_samples,
                                          config.num_rollouts)
                           THEN "generate" ELSE "summary"]
             /\ UNCHANGED error
  /\ scatter_buf' = Scattered(r)
  /\ trace' = [trace EXCEPT ![r] = @ \o ScatterOps(iter[r])]
  /\ UNCHANGED <<config, model, calls, iter, gather_buf, kl_ctl, reward_calls, reduce_entered,
                 stats_logged, store, decVars, refVars, pipeVars>>

\* Lines 753-850 when client.infer raises at micro-batch failed_at: the
\* exception leaves ref_model and make_experience; what the iteration did
\* before the call stays done, its elements are never built.
RefRaiseStep(r) ==
  /\ pc[r] = "scatter"
  /\ ScatterReady(r)
  /\ config.model_arch_type # "seq2seq"
  /\ ~config.frozen_head
  /\ LET sh == Shaped(r)
     IN /\ loc' = [loc EXCEPT ![r] =
                     [@ EXCEPT !.raw_scores = sh.raw, !.scaled_scores = sh.scaled,
                               !.scores = sh.scores, !.sample_outputs = sh.sample_outputs]]
        /\ ref_stats' = [ref_stats EXCEPT ![r] = sh.new_ref]
        /\ running_moments' = [running_moments EXCEPT ![r] = sh.new_moments]
        /\ \E failed_at \in 0..(NumRequests(sh.n_samples) - 1) :
             ref_log' = [ref_log EXCEPT ![r] =
                           @ \o RefRequests(iter[r], sh.n_samples, failed_at)]
  /\ error' = [error EXCEPT ![r] = "InferenceServerException"]
  /\ pc' = [pc EXCEPT ![r] = "raised"]
  /\ scatter_buf' = Scattered(r)
  /\ trace' = [trace EXCEPT ![r] = @ \o ScatterOps(iter[r])]
  /\ UNCHANGED <<config, model, calls, iter, gather_buf, ppo_rl_elements, kl_ctl, reward_calls,
                 reduce_entered, stats_logged, store, decVars, refVars, pipeVars>>

\* Lines 909-910: under torch.distributed the worker enters the averaging
\* all_reduce of mean_kl.
AllReduceStep(r) ==
  /\ pc[r] = "summary"
  /\ dist_initialized
  /\ reduce_entered' = reduce_entered \cup {r}
  /\ trace' = [trace EXCEPT ![r] = Append(@, [op |-> "all_reduce", of |-> "mean_kl"])]
  /\ pc' = [pc EXCEPT ![r] = "reduce"]
  /\ UNCHANGED <<config, model, calls, iter, loc, gather_buf, scatter_buf, ppo_rl_elements,
                 running_moments, ref_stats, kl_ctl, reward_calls, stats_logged, ref_log,
                 error, store, decVars, refVars, pipeVars>>

\* Mutant of AllReduced: the all_reduce returns without the other workers.
AllReducedAlone(entered) == TRUE

\* Line 910: the all_reduce returns once every worker has entered it.
AllReduced(entered) == entered = Workers

\* Lines 912-919: the all_reduce (if any) has completed; log the stats and
\* push the collected elements.
LogAndPushStep(r) ==
  /\ \/ pc[r] = "summary" /\ ~dist_initialized
     \/ pc[r] = "reduce" /\ AllReduced(reduce_entered)
  /\ stats_logged' = [stats_logged EXCEPT ![r] =
                        Append(@, [kl_ctl_value |-> kl_ctl[r], iters |-> iter[r]])]
  /\ store' = [store EXCEPT ![r] = Append(@, ppo_rl_elements[r])]
  /\ trace' = [trace EXCEPT ![r] = @ \o <<[op |-> "log", of |-> "stats"],
                                          [op |-> "push", of |-> "ppo_rl_elements"]>>]
  /\ pc' = [pc EXCEPT ![r] = "done"]
  /\ UNCHANGED <<config, model, calls, iter, loc, gather_buf, scatter_buf, ppo_rl_elements,
                 running_moments, ref_stats, kl_ctl, reward_calls, reduce_entered,
                 ref_log, error, decVars, refVars, pipeVars>>

Init == InitDec /\ InitRef /\ InitPipe /\ InitExp
Generating == \E r \in Workers : GenerateStep(r)
Gathering == \E r \in Workers : GatherStep(r)
Scattering == \E r \in Workers : ScatterStep(r)
Reducing == \E r \in Workers : AllReduceStep(r)
Pushing == \E r \in Workers : LogAndPushStep(r)

Next == Generating \/ Gathering \/ Scattering \/ Reducing \/ Pushing
Spec == Init /\ [][Next]_vars

\* ------------------------------------------- make_experience, called again
\* The trainer calls make_experience again once every worker has returned
\* from the previous call: the call's locals start afresh (lines 703-705),
\* the trainer's attributes (running_moments, ref_mean, ref_std) stay as they
\* are; the records kept of reward_fn, log and push are those of the current
\* call.  Between the calls the trainer's KL controller, which is not part of
\* this file, may have moved kl_ctl.value, by the same amount on every worker.
KlValues == {2, 3}

CallAgain ==
  /\ \A r \in Workers : pc[r] = "done"
  /\ calls < MaxCalls
  /\ calls' = calls + 1
  /\ pc' = [r \in Workers |-> "generate"]
  /\ iter' = [r \in Workers |-> 0]
  /\ loc' = [r \in Workers |-> NoLoc]
  /\ gather_buf' = [r \in Workers |-> NoPost]
  /\ scatter_buf' = [iter |-> 0, scatter_list |-> <<>>]
  /\ ppo_rl_elements' = [r \in Workers |-> <<>>]
  /\ reward_calls' = <<>>
  /\ reduce_entered' = {}
  /\ stats_logged' = [r \in Workers |-> <<>>]
  /\ ref_log' = [r \in Workers |-> <<>>]
  /\ trace' = [r \in Workers |-> <<>>]
  /\ store' = [r \in Workers |-> <<>>]
  /\ \E v \in KlValues : kl_ctl' = [r \in Workers |-> v]
  /\ UNCHANGED <<config, model, running_moments, ref_stats, error,
                 decVars, refVars, pipeVars>>

\* Repeated calls are explored on small configurations: one worker running
\* one or two iterations per call, or two workers running one.
CallConfigs ==
  {c \in [deployment : Deployments,
          num_rollouts : {1, 2},
          chunk_size : {1, 2},
          scale_reward : {"running"},
          cliprange_reward : {2 * One},
          padding_side : {"left"},
          stop_sequences : {<<<<"b">>>>},
          frozen_head : {FALSE},
          model_arch_type : {"causal"}] :
     c.deployment[1] > 1 => c.num_rollouts <= c.chunk_size}

InitCalls == InitDec /\ InitRef /\ InitPipe /\ \E c \in CallConfigs : InitExpFor(c)
NextCalls == Next \/ CallAgain
SpecCalls == InitCalls /\ [][NextCalls]_vars

\* ------------------------------------- make_experience with a failing server
\* The same pipeline when the reference server can fail; the configurations
\* vary what decides whether and when the remote call is made.
FaultConfigs ==
  [deployment : Deployments,
   num_rollouts : 1..MaxRollouts,
   chunk_size : 1..MaxBatch,
   scale_reward : {"running"},
   cliprange_reward : {0},
   padding_side : {"left"},
   stop_sequences : {<<<<"b">>>>},
   frozen_head : BOOLEAN,
   model_arch_type : {"causal"}]

\* Line 714: self.generate never returns; the worker does not reach the
\* gathers of this iteration.
StallInGenerate(r) ==
  /\ pc[r] = "generate"
  /\ pc' = [pc EXCEPT ![r] = "stalled_generate"]
  /\ UNCHANGED <<config, model, calls, iter, loc, gather_buf, scatter_buf, ppo_rl_elements,
                 running_moments, ref_stats, kl_ctl, reward_calls, reduce_entered,
                 stats_logged, ref_log, error, trace, store, decVars, refVars, pipeVars>>

\* Line 739: reward_fn never returns on the main process, which has passed
\* the gathers and does not reach the scatter.
StallInReward(r) ==
  /\ pc[r] = "gather"
  /\ GatherReady(r)
  /\ IsMainProcess(r)
  /\ pc' = [pc EXCEPT ![r] = "stalled_reward"]
  /\ UNCHANGED <<config, model, calls, iter, loc, gather_buf, scatter_buf, ppo_rl_elements,
                 running_moments, ref_stats, kl_ctl, reward_calls, reduce_entered,
                 stats_logged, ref_log, error, trace, store, decVars, refVars, pipeVars>>

\* Line 941: client.infer never returns; the worker has passed the scatter
\* and shaped its scores, and reaches neither the next gathers nor the
\* all_reduce.
StallInRef(r) ==
  /\ pc[r] = "scatter"
  /\ ScatterReady(r)
  /\ config.model_arch_type # "seq2seq"
  /\ ~config.frozen_head
  /\ LET sh == Shaped(r)
     IN /\ loc' = [loc EXCEPT ![r] =
                     [@ EXCEPT !.raw_scores = sh.raw, !.scaled_scores = sh.scaled,
                               !.scores = sh.scores, !.sample_outputs = sh.sample_outputs]]
        /\ ref_stats' = [ref_stats EXCEPT ![r] = sh.new_ref]
        /\ running_moments' = [running_moments EXCEPT ![r] = sh.new_moments]
        /\ ref_log' = [ref_log EXCEPT ![r] = @ \o RefRequests(iter[r], sh.n_samples, 0)]
  /\ pc' = [pc EXCEPT ![r] = "stalled_ref"]
  /\ scatter_buf' = Scattered(r)
  /\ trace' = [trace EXCEPT ![r] = @ \o ScatterOps(iter[r])]
  /\ UNCHANGED <<config, model, calls, iter, gather_buf, ppo_rl_elements, kl_ctl,
                 reward_calls, reduce_entered, stats_logged, error, store,
                 decVars, refVars, pipeVars>>

InitFaults == InitDec /\ InitRef /\ InitPipe /\ \E c \in FaultConfigs : InitExpFor(c)
Raising == \E r \in Workers : RefRaiseStep(r)
StallingInGenerate == \E r \in Workers : StallInGenerate(r)
StallingInReward == \E r \in Workers : StallInReward(r)
StallingInRef == \E r \in Workers : StallInRef(r)
NextFaults ==
  Next \/ Raising \/ StallingInGenerate \/ StallingInReward \/ StallingInRef
SpecFaults == InitFaults /\ [][NextFaults]_vars

\* ------------------------------------------------ decode, called alone
\* Generated parts of a sample, n tokens wide: ordinary tokens, then the end
\* token (generation is forced to end with it), then padding only, as
\* generation and pad_across_processes leave the shorter rows of a batch.
RECURSIVE SeqsOf(_, _)
SeqsOf(S, n) ==
  IF n = 0 THEN {<<>>}
  ELSE {<<x>> \o s : x \in S, s \in SeqsOf(S, n - 1)}

Pads(n) == [j \in 1..n |-> PAD_TOKEN_ID]

GeneratedParts(n) ==
  UNION {{body \o <<eos_token_id>> \o Pads(n - k - 1) : body \in SeqsOf(TextTokens, k)}
         : k \in 0..(n - 1)}

DecPrompts == {<<PAD_TOKEN_ID, 3>>, <<4, eos_token_id>>, <<3, PAD_TOKEN_ID>>}

StopLists ==
  {<<>>, <<<<"b">>>>, <<<<"b">>, <<"a", "b">>>>, <<<<"a", "b">>, <<"b">>>>,
   <<<<" ", "a">>>>, <<<<eos_token>>>>}

CallDecode ==
  /\ ~dec_args.called
  /\ \E prompt \in DecPrompts, n \in 1..MaxOutLen, stops \in StopLists :
       \E gen \in GeneratedParts(n), arch \in {"causal", "seq2seq"} :
         /\ dec_args' = [called |-> TRUE, prompt |-> prompt, sample |-> prompt \o gen,
                         prompt_size |-> Len(prompt), stop_sequences |-> stops,
                         model_arch_type |-> arch]
         /\ dec_ret' =
              IF DecodeError(arch, <<prompt \o gen>>) # "none"
                THEN [called |-> TRUE, error |-> DecodeError(arch, <<prompt \o gen>>)]
                ELSE [called |-> TRUE, error |-> "none",
                      out |-> Decode(<<prompt>>, <<prompt \o gen>>, <<Len(prompt)>>,
                                     stops)[1]]
  /\ UNCHANGED <<refVars, expVars, pipeVars>>

InitDecode == InitDec /\ InitRef /\ InitPipe /\ InitExpIdle
NextDecode == CallDecode
SpecDecode == InitDecode /\ [][NextDecode]_vars

\* --------------------------------------------- ref_model, called alone
RefTokenRows(B, seed) == [k \in 1..B |-> <<(k + seed) % 7, 3 + (k % 3)>>]
RefMaskRows(rows) ==
  [k \in 1..Len(rows) |-> [j \in 1..Len(rows[k]) |->
      IF rows[k][j] # PAD_TOKEN_ID THEN 1 ELSE 0]]

TritonHosts ==
  {NoHost,
   [set |-> TRUE, parts |-> <<"triton:8001", "ref">>],
   [set |-> TRUE, parts |-> <<"triton:8001">>],
   [set |-> TRUE, parts |-> <<"triton:8001", "models", "ref">>]}

\* self.ref_model = triton_server_ref_model()
RefConstruct ==
  /\ ref_pc = "unbuilt"
  /\ \E optimized \in BOOLEAN :
       LET built == TritonServerRefModel(triton_host, optimized)
       IN /\ ref_error' = built.error
          /\ client' = built.client
          /\ triton_model' = built.triton_model
          /\ ref_pc' = IF built.error = "none" THEN "idle" ELSE "raised"
  /\ UNCHANGED <<triton_host, ref_tokens, ref_masks, ref_i, ref_out, ref_requests,
                 ref_ret, decVars, expVars, pipeVars>>

RefCall ==
  /\ ref_pc \in {"idle", "returned"}
  /\ \E B \in 1..MaxRefBatch, seed \in {0, 3} :
       /\ ref_tokens' = RefTokenRows(B, seed)
       /\ ref_masks' = RefMaskRows(RefTokenRows(B, seed))
  /\ ref_i' = 0
  /\ ref_out' = <<>>
  /\ ref_requests' = <<>>
  /\ ref_ret' = <<>>
  /\ ref_pc' = "loop"
  /\ UNCHANGED <<triton_host, client, triton_model, ref_error, decVars, expVars, pipeVars>>

\* One pass of the for loop: one client.infer request, its logits appended.
RefInfer ==
  /\ ref_pc = "loop"
  /\ ref_i < NumRequests(Len(ref_tokens))
  /\ client.created
  /\ LET req == [model |-> triton_model,
                 input_ids |-> BatchIxs(ref_tokens, ref_i),
                 attention_mask |-> BatchIxs(ref_masks, ref_i)]
     IN /\ ref_requests' = Append(ref_requests, req)
        /\ ref_out' = Append(ref_out, ClientInfer(req))
  /\ ref_i' = ref_i + 1
  /\ UNCHANGED <<triton_host, client, triton_model, ref_error, ref_pc, ref_tokens,
                 ref_masks, ref_ret, decVars, expVars, pipeVars>>

RefReturn ==
  /\ ref_pc = "loop"
  /\ ref_i >= NumRequests(Len(ref_tokens))
  /\ ref_ret' = Cat(ref_out)
  /\ ref_pc' = "returned"
  /\ UNCHANGED <<triton_host, client, triton_model, ref_error, ref_tokens, ref_masks,
                 ref_i, ref_out, ref_requests, decVars, expVars, pipeVars>>

InitRefModel ==
  /\ InitDec /\ InitPipe /\ InitExpIdle
  /\ triton_host \in TritonHosts
  /\ client = NoClient
  /\ triton_model = ""
  /\ ref_error = "none"
  /\ ref_pc = "unbuilt"
  /\ ref_tokens = <<>>
  /\ ref_masks = <<>>
  /\ ref_i = 0
  /\ ref_out = <<>>
  /\ ref_requests = <<>>
  /\ ref_ret = <<>>

NextRefModel == RefConstruct \/ RefCall \/ RefInfer \/ RefReturn
SpecRefModel == InitRefModel /\ [][NextRefModel]_vars

\* ------------------------------------------- CustomPromptPipeline.__init__
\* A prompt of n tokens, the last of them the end token if has_eos.
PromptTokens(n, has_eos) ==
  [j \in 1..n |-> IF j = n /\ has_eos THEN eos_token_id ELSE 3]

PromptKinds == {PromptTokens(n, e) : n \in {1, 16, 17}, e \in BOOLEAN}

RECURSIVE PromptLists(_)
PromptLists(n) ==
  IF n = 0 THEN {<<>>}
  ELSE PromptLists(n - 1) \cup
       {Append(l, q) : l \in {x \in PromptLists(n - 1) : Len(x) = n - 1}, q \in PromptKinds}

\* if max_prompt_length < 16
min_prompt_length == 16

\* truncation=True, max_length=max_prompt_length, on the tokenizer's truncation side.
Truncate(toks, max_length, truncation_side) ==
  IF Len(toks) <= max_length THEN toks
  ELSE IF truncation_side = "right" THEN SubSeq(toks, 1, max_length)
  ELSE SubSeq(toks, Len(toks) - max_length + 1, Len(toks))

\* padding=True: every row padded to the longest, on the tokenizer's padding side.
PadTo(toks, width, padding_side) ==
  IF padding_side = "right" THEN toks \o Pads(width - Len(toks))
  ELSE Pads(width - Len(toks)) \o toks

\* tokenizer(prompts, truncation=True, padding=True, max_length=..., add_special_tokens=False)
Tokenize(prompts, max_length, truncation_side, padding_side) ==
  LET cut == [k \in 1..Len(prompts) |-> Truncate(prompts[k], max_length, truncation_side)]
  IN [input_ids |-> [k \in 1..Len(cut) |-> PadTo(cut[k], MaxLen(cut), padding_side)],
      attention_mask |->
        [k \in 1..Len(cut) |->
           PadTo([j \in 1..Len(cut[k]) |-> 1], MaxLen(cut), padding_side)]]

\* tokenizer.eos_token_id in prompt_tokens
HasEos(prompt_tokens) == \E j \in 1..Len(prompt_tokens) : prompt_tokens[j] = eos_token_id

\* Mutant of AfterWarning: the loop goes on to the next prompt.
AfterWarningContinue(ix, n) == ix + 1

\* The loop position after a warning: break leaves the loop.
AfterWarning(ix, n) == n

\* Lines 964-981: the sanity check and the tokenizer call.
PipelineCall ==
  /\ pipe_pc = "new"
  /\ \E prompts \in PromptLists(MaxPrompts), max_prompt_length \in {15, 16},
        truncation_side \in {"left", "right"}, padding_side \in {"left", "right"} :
       /\ pipe_args' = [called |-> TRUE, prompts |-> prompts,
                        max_prompt_length |-> max_prompt_length,
                        truncation_side |-> truncation_side,
                        padding_side |-> padding_side]
       /\ IF max_prompt_length < min_prompt_length
            THEN /\ pipe_error' = "ValueError"
                 /\ pipe_pc' = "raised"
                 /\ UNCHANGED prompts_tokens_
            ELSE /\ prompts_tokens_' =
                      Tokenize(prompts, max_prompt_length, truncation_side,
                               padding_side).input_ids
                 /\ pipe_pc' = "loop"
                 /\ UNCHANGED pipe_error
  /\ UNCHANGED <<pipe_ix, pipe_warnings, pipe_prompts, decVars, refVars, expVars>>

\* Lines 985-988: one pass of the loop over prompts_tokens_.
PipelineCheck ==
  /\ pipe_pc = "loop"
  /\ pipe_ix < Len(prompts_tokens_)
  /\ IF ~HasEos(prompts_tokens_[pipe_ix + 1])
       THEN /\ pipe_warnings' = Append(pipe_warnings, [prompt |-> pipe_ix])
            /\ pipe_ix' = AfterWarning(pipe_ix, Len(prompts_tokens_))
       ELSE /\ pipe_ix' = pipe_ix + 1
            /\ UNCHANGED pipe_warnings
  /\ UNCHANGED <<pipe_pc, pipe_args, prompts_tokens_, pipe_prompts, pipe_error,
                 decVars, refVars, expVars>>

\* Lines 1006-1013: the loop is over; self.prompts is set.
PipelineBuild ==
  /\ pipe_pc = "loop"
  /\ pipe_ix >= Len(prompts_tokens_)
  /\ LET inputs == Tokenize(pipe_args.prompts, pipe_args.max_prompt_length,
                            pipe_args.truncation_side, pipe_args.padding_side)
     IN pipe_prompts' = [k \in 1..Len(prompts_tokens_) |->
                           [input_ids |-> prompts_tokens_[k],
                            attention_mask |-> inputs.attention_mask[k]]]
  /\ pipe_pc' = "done"
  /\ UNCHANGED <<pipe_args, prompts_tokens_, pipe_ix, pipe_warnings, pipe_error,
                 decVars, refVars, expVars>>

InitPipeline == InitDec /\ InitRef /\ InitPipe /\ InitExpIdle
NextPipeline == PipelineCall \/ PipelineCheck \/ PipelineBuild
SpecPipeline == InitPipeline /\ [][NextPipeline]_vars

\* =============================================================== claims
\* ---- decode and ref_model

\* C5 (as claimed): every output decode returns carries the end marker exactly
\* once, whatever the sample's last token is.
C5_EosExactlyOnce ==
  dec_ret.called /\ dec_ret.error = "none" => CountIn(dec_ret.out.str_output, eos_token) = 1

\* The earliest 0-based position at which any of the stops occurs in text, -1 if none.
EarliestStop(text, stops) ==
  LET hits == {Find(text, stops[k]) : k \in 1..Len(stops)} \ {-1}
  IN IF hits = {} THEN -1 ELSE CHOOSE i \in hits : \A j \in hits : i <= j

\* C6 (as claimed): before the end marker is appended the output is the
\* untrimmed text cut at the earliest occurrence of any stop string and
\* right-stripped, and is the untrimmed text when no stop string occurs.
C6_TrimAtEarliestStop ==
  dec_ret.called /\ dec_ret.error = "none" =>
    LET u == dec_ret.out.untrimmed
        e == EarliestStop(u, dec_args.stop_sequences)
    IN dec_ret.out.before_eos = IF e < 0 THEN u ELSE RStrip(SubSeq(u, 1, e))

\* C7: ref_model sends ceil(B/8) requests, request i carrying rows
\* 8(i-1)+1 .. min(8i, B) of input_ids and of attention_mask, and returns B
\* rows, those one request with the whole batch would return.
C7_ChunkedEqualsWhole ==
  ref_pc = "returned" =>
    LET B == Len(ref_tokens)
        n == Len(ref_requests)
    IN /\ n * 8 >= B /\ (n - 1) * 8 < B
       /\ \A i \in 1..n :
            LET lo == 8 * (i - 1) + 1
                hi == IF 8 * i <= B THEN 8 * i ELSE B
            IN /\ ref_requests[i].input_ids = SubSeq(ref_tokens, lo, hi)
               /\ ref_requests[i].attention_mask = SubSeq(ref_masks, lo, hi)
               /\ Len(ref_requests[i].input_ids) \in 1..8
       /\ Len(ref_ret) = B
       /\ ref_ret = ClientInfer([model |-> triton_model, input_ids |-> ref_tokens,
                                 attention_mask |-> ref_masks])

\* C7 witness: a returned call whose batch is no multiple of 8 and needs three requests.
C7_Witness ==
  /\ ref_pc = "returned"
  /\ Len(ref_tokens) % 8 # 0
  /\ Len(ref_requests) = 3

\* ---- make_experience
\* The worker has built the elements of its current iteration.
Built(r) == loc[r].all_tokens # <<>>

\* The element of the current iteration's sample i (1-based) of worker r.
CurrentElement(r, i) ==
  ppo_rl_elements[r][Len(ppo_rl_elements[r]) - Len(loc[r].all_tokens) + i]

LoopEnded(r) == pc[r] \in {"summary", "reduce", "done"}

\* C1: with batches of B examples the loop of make_experience(num_rollouts=N)
\* ends after exactly ceil(N/B) iterations with at least N and fewer than N+B
\* elements; push_to_store is called once, after the loop, with all of them,
\* and nothing is pushed before.
C1_LoopAndSinglePush ==
  \A r \in Workers :
    LET N == config.num_rollouts
        B == config.chunk_size
    IN /\ Len(ppo_rl_elements[r]) < N + B
       /\ (iter[r] - 1) * B < N
       /\ LoopEnded(r) => /\ iter[r] * B >= N
                          /\ Len(ppo_rl_elements[r]) >= N
                          /\ Len(ppo_rl_elements[r]) = iter[r] * B
       /\ ~LoopEnded(r) => Len(ppo_rl_elements[r]) < N
       /\ pc[r] # "done" => store[r] = <<>>
       /\ pc[r] = "done" => store[r] = <<ppo_rl_elements[r]>>

\* C1 witness: two workers are done after two iterations each.
C1_Witness ==
  /\ num_processes = 2
  /\ \A r \in Workers : pc[r] = "done" /\ iter[r] = 2 /\ Len(store[r]) = 1

\* Tokens of a row that are not padding.
NonPad(row) == Len(row) - CountIn(row, PAD_TOKEN_ID)

\* C2 (as claimed): the three per-token sequences of every element have one
\* length, the number of non-padding tokens of the element's response plus
\* one -- the response counted with its end tokens or without them.
C2_LengthIsResponsePlusOne ==
  \A r \in Workers : \A k \in 1..Len(ppo_rl_elements[r]) :
    LET e == ppo_rl_elements[r][k]
        n == NonPad(e.response_tensor)
        nText == n - CountIn(e.response_tensor, eos_token_id)
    IN /\ Len(e.logprobs) = Len(e.values)
       /\ Len(e.values) = Len(e.rewards)
       /\ Len(e.rewards) \in {n + 1, nText + 1}

\* C3: the rewards of an element are -kl_ctl.value * log_ratio over its slice,
\* with the example's own final score added once, at the last position.
C3_ScoreOnceAtLastPosition ==
  \A r \in Workers : Built(r) =>
    \A i \in 1..Len(loc[r].all_tokens) :
      LET rewards == CurrentElement(r, i).rewards
          L == Len(rewards)
          kl(j1) == -(kl_ctl[r] * loc[r].log_ratio[i][loc[r].start + j1])
      IN /\ L >= 1
         /\ \A j1 \in 1..(L - 1) : rewards[j1] = kl(j1)
         /\ rewards[L] = IF IsFinite(loc[r].scores[i]) THEN kl(L) + loc[r].scores[i]
                         ELSE loc[r].scores[i]

\* C3 witness: a batch of two whose elements have several positions, a
\* non-zero KL term before the last, and different non-zero scores.
C3_Witness ==
  \E r \in Workers :
    /\ Built(r)
    /\ Len(loc[r].all_tokens) = 2
    /\ loc[r].scores[1] # loc[r].scores[2]
    /\ \A i \in 1..2 :
         /\ IsFinite(loc[r].scores[i]) /\ loc[r].scores[i] # 0
         /\ Len(CurrentElement(r, i).rewards) >= 3
         /\ CurrentElement(r, i).rewards[1] # 0

\* C4 (as claimed): the slices start at prompt_length - 1 and no sliced
\* position after the prompt lies on padding.
C4_SliceStopsAtEndToken ==
  \A r \in Workers : Built(r) =>
    \A i \in 1..Len(loc[r].all_tokens) :
      LET P == Len(loc[r].prompt_tensors[i])
          L == Len(CurrentElement(r, i).values)
      IN /\ loc[r].start = P - 1
         /\ \A j \in loc[r].start..(loc[r].start + L - 1) :
              j >= P => loc[r].all_tokens[i][j + 1] # PAD_TOKEN_ID

\* C8: reward_fn is invoked once per iteration, by the main process, after
\* every worker has handed in its tensors, on the gathered batch of all workers;
\* an iteration the seq2seq decode aborts (line 554) invokes it never.
C8_RewardOncePerIteration ==
  /\ \A k \in 1..Len(reward_calls) :
       /\ reward_calls[k].worker = 0
       /\ reward_calls[k].iter = k
       /\ reward_calls[k].gathered_from = Workers
       /\ Len(reward_calls[k].outputs) = num_processes * config.chunk_size
       /\ Len(reward_calls[k].all_scores) = num_processes * config.chunk_size
  /\ Len(reward_calls) =
       IF pc[0] = "gather" \/ (pc[0] = "raised" /\ error[0] = "NotImplementedError")
       THEN iter[0] - 1 ELSE iter[0]
  /\ \A r \in Workers :
       pc[r] \in {"generate", "summary", "reduce", "done"} => Len(reward_calls) >= iter[r]

\* C8 witness: two workers have finished two iterations.
C8_Witness ==
  /\ num_processes = 2
  /\ Len(reward_calls) = 2
  /\ \A r \in Workers : pc[r] = "done"

\* C9: after the scatter, worker r's score i is reward_fn's output at gathered
\* index r * B + i, the index of the i-th sample r generated in this iteration;
\* without torch.distributed the worker holds the whole vector.
C9_ShardsToOwners ==
  \A r \in Workers : Built(r) =>
    LET rc == reward_calls[iter[r]]
        B == Len(loc[r].samples)
    IN /\ Len(loc[r].raw_scores) = B
       /\ \A i \in 1..B :
            /\ loc[r].raw_scores[i] = rc.all_scores[r * B + i]
            /\ DropPad(rc.samples[r * B + i]) = DropPad(loc[r].samples[i])
       /\ ~dist_initialized => loc[r].raw_scores = rc.all_scores

\* C9 witness: two workers hold different shards of the same iteration.
C9_Witness ==
  /\ num_processes = 2
  /\ Built(0) /\ Built(1)
  /\ iter[0] = iter[1]
  /\ loc[0].raw_scores # loc[1].raw_scores

\* C10 (as claimed): with a clip range c every final score lies in [-c, c] and
\* is the scaled score clamped; the last reward is that score plus the KL
\* term; without a clip range the scaled score is used unchanged.
C10_ClippedIntoRange ==
  \A r \in Workers : Built(r) =>
    \A i \in 1..Len(loc[r].scores) :
      LET c == config.cliprange_reward
          x == loc[r].scaled_scores[i]
          rewards == CurrentElement(r, i).rewards
      IN IF c # 0
           THEN /\ -c <= loc[r].scores[i] /\ loc[r].scores[i] <= c
                /\ loc[r].scores[i] = (IF x < -c THEN -c ELSE IF x > c THEN c ELSE x)
                /\ rewards[Len(rewards)] =
                     loc[r].scores[i]
                     - kl_ctl[r] * loc[r].log_ratio[i][loc[r].start + Len(rewards)]
           ELSE loc[r].scores[i] = x

\* C11: the scaled scores are the raw local scores divided by the running std
\* as updated in this iteration when scale_reward is "running", divided by
\* the reference std snapshotted from the first batch when it is "ref", and
\* the raw scores themselves for any other value.
C11_ScalingFollowsMode ==
  \A r \in Workers : Built(r) =>
    /\ Len(loc[r].scaled_scores) = Len(loc[r].raw_scores)
    /\ \A i \in 1..Len(loc[r].raw_scores) :
         LET raw == loc[r].raw_scores[i]
             x == loc[r].scaled_scores[i]
         IN CASE config.scale_reward = "running" ->
                   x = Div(raw, RunningStd(running_moments[r]))
              [] config.scale_reward = "ref" ->
                   /\ ref_stats[r].set
                   /\ x = Div(raw, ref_stats[r].std)
              [] OTHER -> x = raw

\* C11 witness: in a second iteration a worker's scores were divided by a
\* finite running std that changed them.
C11_Witness ==
  \E r \in Workers :
    /\ Built(r)
    /\ iter[r] = 2
    /\ config.scale_reward = "running"
    /\ IsFinite(RunningStd(running_moments[r])) /\ RunningStd(running_moments[r]) > 0
    /\ loc[r].scaled_scores # loc[r].raw_scores

\* C12: with TRITON_HOST_REF unset, triton_server_ref_model raises; no
\* inference client is ever created and no inference request is ever made.
C12_UnsetHostFailsFast ==
  ~triton_host.set =>
    /\ ~client.created
    /\ ref_requests = <<>>
    /\ ref_pc \in {"unbuilt", "raised"}
    /\ ref_pc = "raised" => ref_error \in {"AssertionError", "AttributeError"}

\* C12 witness: the construction was attempted with the variable unset.
C12_Witness ==
  /\ ~triton_host.set
  /\ ref_pc = "raised"
  /\ ref_error # "none"

\* C13: a worker whose remote reference call raised has left make_experience
\* with that exception: it requested every micro-batch at most once, pushed
\* nothing and logged nothing, whatever it had collected in earlier
\* iterations, and it takes no further step of the call.
C13_RefErrorAborts ==
  \A r \in Workers :
    /\ \A j, k \in 1..Len(ref_log[r]) : ref_log[r][j] = ref_log[r][k] => j = k
    /\ error[r] = "InferenceServerException" =>
         /\ pc[r] = "raised"
         /\ store[r] = <<>>
         /\ stats_logged[r] = <<>>
         /\ r \notin reduce_entered
         /\ ref_log[r] # <<>>
         /\ ref_log[r][Len(ref_log[r])].iter = iter[r]
    /\ pc[r] = "raised" => error[r] # "none"

\* C13 witness: the call raised in a second iteration, after elements had
\* been collected in the first.
C13_Witness ==
  \E r \in Workers :
    /\ error[r] = "InferenceServerException"
    /\ iter[r] = 2
    /\ ppo_rl_elements[r] # <<>>

\* C14: with a seq2seq model get_arch raises NotImplementedError, and so does
\* decode on the gathered batch, through which make_experience raises in its
\* first iteration: reward_fn is never invoked, no element is ever created
\* or pushed, and no worker gets past its first iteration.
C14_Seq2SeqRaises ==
  config.model_arch_type = "seq2seq" =>
    /\ model.error = "NotImplementedError"
    /\ reward_calls = <<>>
    /\ pc[0] \in {"generate", "gather", "raised"}
    /\ pc[0] = "raised" => error[0] = "NotImplementedError"
    /\ \A r \in Workers :
         /\ ppo_rl_elements[r] = <<>>
         /\ store[r] = <<>>
         /\ stats_logged[r] = <<>>
         /\ iter[r] <= 1
         /\ pc[r] \in {"generate", "gather", "scatter", "raised"}
         /\ error[r] \in {"none", "NotImplementedError"}

\* C14 witness: in a two-worker seq2seq run the main process has raised.
C14_Witness ==
  /\ config.model_arch_type = "seq2seq"
  /\ num_processes = 2
  /\ pc[0] = "raised"
  /\ error[0] = "NotImplementedError"

\* A text without its end markers.
WithoutEos(text) == SelectSeq(text, LAMBDA piece : piece # eos_token)

IsPrefix(a, b) == Len(a) <= Len(b) /\ a = SubSeq(b, 1, Len(a))

\* C15: reward_fn receives three lists as long as the gathered batch; at every
\* index the sample text is the prompt text followed by the output text, and
\* the index is that of one example: worker r's i-th prompt and the output
\* cut from worker r's i-th sample stand at gathered index r * B + i.
C15_RewardArgsAligned ==
  /\ \A k \in 1..Len(reward_calls) :
       LET rc == reward_calls[k]
           n == num_processes * config.chunk_size
       IN /\ Len(rc.samples) = n
          /\ Len(rc.str_samples) = n /\ Len(rc.str_prompts) = n /\ Len(rc.outputs) = n
          /\ \A i \in 1..n : rc.str_samples[i] = rc.str_prompts[i] \o rc.outputs[i]
  /\ \A r \in Workers :
       (pc[r] = "scatter" /\ Len(reward_calls) >= iter[r]) =>
         LET rc == reward_calls[iter[r]]
             B == Len(loc[r].samples)
             P == Len(loc[r].prompt_tensors[1])
         IN \A i \in 1..B :
              /\ rc.str_prompts[r * B + i] = TokenizerDecode(DropPad(loc[r].prompt_tensors[i]))
              /\ IsPrefix(WithoutEos(rc.outputs[r * B + i]),
                          TokenizerDecode(DropPad(SubSeq(loc[r].samples[i], P + 1,
                                                         Len(loc[r].samples[i])))))

\* C15 witness: a gathered batch of four examples of two workers, with
\* different prompts and different outputs, one of them cut at a stop.
C15_Witness ==
  /\ num_processes = 2
  /\ pc[1] = "scatter"
  /\ Len(reward_calls) = iter[1]
  /\ LET rc == reward_calls[iter[1]]
     IN /\ Len(rc.str_samples) = 4
        /\ rc.str_prompts[1] # rc.str_prompts[2]
        /\ rc.outputs[3] # rc.outputs[4]
        /\ rc.outputs[1] # rc.outputs[3]
        /\ \E i \in 1..4 : rc.outputs[i] = <<"a", eos_token>>

\* C16: a pipeline constructed with max_prompt_length >= 16 never raises; over
\* a non-empty set of tokenized prompts none of which holds the end token it
\* has warned exactly once when construction is complete, over a set whose
\* prompts all hold it it has not warned; it never warns twice.
C16_WarnsOnce ==
  /\ Len(pipe_warnings) <= 1
  /\ (pipe_args.called /\ pipe_args.max_prompt_length >= 16) =>
       /\ pipe_pc # "raised" /\ pipe_error = "none"
       /\ pipe_pc = "done" =>
            /\ Len(pipe_prompts) = Len(pipe_args.prompts)
            /\ (prompts_tokens_ # <<>>
                 /\ \A k \in 1..Len(prompts_tokens_) : ~HasEos(prompts_tokens_[k]))
                 => Len(pipe_warnings) = 1
            /\ (\A k \in 1..Len(prompts_tokens_) : HasEos(prompts_tokens_[k]))
                 => pipe_warnings = <<>>

\* C16 witness: a set of three prompts without end token, one of them having
\* lost it to truncation, was constructed with one warning.
C16_Witness ==
  /\ pipe_pc = "done"
  /\ Len(prompts_tokens_) = 3
  /\ \A k \in 1..3 : ~HasEos(prompts_tokens_[k])
  /\ \E k \in 1..3 : HasEos(pipe_args.prompts[k])
  /\ Len(pipe_warnings) = 1

\* The operations a worker's call is expected to perform, in order, when it
\* has begun n iterations: per iteration the three gathers and, if scatters,
\* the scatter; after the loop the all-reduce, if reduces, then log and push.
ExpectedLoop(n, scatters) ==
  [p \in 1..(n * (IF scatters THEN 4 ELSE 3)) |->
     LET per == IF scatters THEN 4 ELSE 3
         it == ((p - 1) \div per) + 1
         k == ((p - 1) % per) + 1
     IN CASE k = 1 -> [op |-> "gather", of |-> "samples", iter |-> it]
          [] k = 2 -> [op |-> "gather", of |-> "prompts", iter |-> it]
          [] k = 3 -> [op |-> "gather", of |-> "prompt_sizes", iter |-> it]
          [] OTHER -> [op |-> "scatter", of |-> "scores", iter |-> it]]

ExpectedTail(reduces) ==
  (IF reduces THEN <<[op |-> "all_reduce", of |-> "mean_kl"]>> ELSE <<>>)
  \o <<[op |-> "log", of |-> "stats"], [op |-> "push", of |-> "ppo_rl_elements"]>>

\* A causal worker's operations follow the expected order: as far as it has
\* got, and in full once it has returned.
FollowsOrder(r, scatters, reduces) ==
  LET loop == ExpectedLoop(iter[r], scatters)
      full == loop \o ExpectedTail(reduces)
  IN /\ IsPrefix(trace[r], full)
     /\ pc[r] = "generate" => trace[r] = loop
     /\ pc[r] = "summary" => trace[r] = loop
     /\ pc[r] = "done" => trace[r] = full
     /\ \A p \in 1..Len(trace[r]) :
          trace[r][p].op = "all_reduce" => LoopEnded(r) /\ dist_initialized

\* C19 (as claimed): every worker performs the three gathers and then one
\* scatter in every iteration, whatever the runtime; the all-reduce comes
\* once, after the loop and before log and push, only under torch.distributed.
C19_GathersThenScatter ==
  config.model_arch_type = "causal" =>
    \A r \in Workers : FollowsOrder(r, TRUE, dist_initialized)

\* C19 (amended): the scatter, like the all-reduce, is performed only under
\* torch.distributed; without it an iteration performs the three gathers only.
C19_ScatterOnlyDistributed ==
  config.model_arch_type = "causal" =>
    \A r \in Workers : FollowsOrder(r, dist_initialized, dist_initialized)

\* C19 witness: a worker of a two-worker run and the worker of a run without
\* torch.distributed have each returned from a call of two iterations.
C19_Witness ==
  /\ \A r \in Workers : pc[r] = "done" /\ iter[r] = 2
  /\ \/ num_processes = 2 /\ Len(trace[1]) = 11
     \/ ~dist_initialized /\ Len(trace[0]) = 8

\* ---- make_experience, called again
\* The rollout iterations of worker r, over all calls, whose scores have
\* reached the update of the running moments.
IterationsScored(r) ==
  (calls - 1) * CeilDiv(config.num_rollouts, config.chunk_size)
  + (IF pc[r] \in {"gather", "scatter"} THEN iter[r] - 1 ELSE iter[r])

\* Worker r's rows of the scores reward_fn returned in r's current iteration.
OwnShard(r) ==
  LET B == config.chunk_size
  IN SubSeq(reward_calls[iter[r]].all_scores, r * B + 1, r * B + B)

\* C17: a worker's running moments have absorbed B scores for every
\* iteration it has run, over all calls; they change only in the iteration's
\* step after the scatter, once, by the worker's own shard of the raw scores
\* reward_fn returned (not the scaled or clipped ones), and are never reset.
C17_MomentsAbsorbLocalRaw ==
  /\ [](\A r \in Workers :
         running_moments[r].count = config.chunk_size * IterationsScored(r))
  /\ [][\A r \in Workers :
          running_moments'[r] # running_moments[r] =>
            /\ pc[r] = "scatter" /\ pc'[r] # "scatter"
            /\ running_moments'[r].count
                 = running_moments[r].count + config.chunk_size
            /\ running_moments'[r].sum = running_moments[r].sum + Sum(OwnShard(r))
            /\ running_moments'[r].sumsq
                 = running_moments[r].sumsq + SumSq(OwnShard(r))]_vars

\* C17 witness: in a second call two workers have absorbed different shards,
\* which scaling changed.
C17_Witness ==
  /\ calls = 2
  /\ num_processes = 2
  /\ Built(0) /\ Built(1)
  /\ loc[0].raw_scores # loc[1].raw_scores
  /\ loc[1].scores # loc[1].raw_scores
  /\ running_moments[1].count = 2 * config.chunk_size

\* C18: the reference pair of a worker is set once its first iteration ever
\* has passed the scatter, and not before; it changes in that step only, to
\* the mean and std of that iteration's own raw shard, and no later
\* iteration or call changes it.
C18_RefPairSetOnce ==
  /\ [](\A r \in Workers : ref_stats[r].set <=> IterationsScored(r) >= 1)
  /\ [][\A r \in Workers :
          ref_stats'[r] # ref_stats[r] =>
            /\ ~ref_stats[r].set /\ ref_stats'[r].set
            /\ calls = 1 /\ iter[r] = 1 /\ pc[r] = "scatter"
            /\ ref_stats'[r].mean = Quot(Sum(OwnShard(r)), config.chunk_size)
            /\ ref_stats'[r].std = RefStd(OwnShard(r))]_vars

\* C18 witness: in a second call a worker has shaped a batch whose mean is
\* not the reference mean it holds.
C18_Witness ==
  \E r \in Workers :
    /\ calls = 2
    /\ Built(r)
    /\ ref_stats[r].set
    /\ Quot(Sum(loc[r].raw_scores), config.chunk_size) # ref_stats[r].mean

\* ---- make_experience with a failing server
Stalled(r) == pc[r] \in {"stalled_generate", "stalled_reward", "stalled_ref"}

\* C20: in a multi-worker run, once a worker is stalled in generation, in
\* reward scoring or in the remote reference call, no worker has completed
\* or ever completes make_experience, and nothing is logged or pushed on any
\* worker: the others wait at a gather, at the scatter or at the all-reduce.
C20_StallBlocksAll ==
  (num_processes > 1 /\ \E r \in Workers : Stalled(r)) =>
    \A q \in Workers :
      /\ pc[q] # "done"
      /\ store[q] = <<>>
      /\ stats_logged[q] = <<>>

\* C20 witness: a worker is stalled in the reference call of its last
\* iteration while another, its elements collected, waits in the all-reduce.
C20_Witness ==
  \E r, q \in Workers :
    /\ pc[r] = "stalled_ref"
    /\ pc[q] = "reduce"
    /\ Len(ppo_rl_elements[q]) >= config.num_rollouts
    /\ reduce_entered = {q}

\* ---- the KL coefficient
\* The KL term of element e at the j1-th position of its slice, under the
\* coefficient kl_value.
KlTerm(e, j1, kl_value) ==
  -(kl_value * LogRatio(e.query_tensor \o e.response_tensor)[Start(Len(e.query_tensor)) + j1])

\* Every element worker r holds or has pushed, and every value it has logged,
\* carries the coefficient kl_value.
UsesCoefficient(r, kl_value) ==
  /\ \A k \in 1..Len(ppo_rl_elements[r]) :
       LET e == ppo_rl_elements[r][k]
       IN \A j1 \in 1..(Len(e.rewards) - 1) : e.rewards[j1] = KlTerm(e, j1, kl_value)
  /\ \A k \in 1..Len(stats_logged[r]) : stats_logged[r][k].kl_ctl_value = kl_value

\* C21: no step of make_experience changes kl_ctl.value; so the elements a
\* call has built and the kl_ctl_value it logs all carry the coefficient the
\* call was entered with, which is the one the trainer still holds.
C21_KlCtlReadOnly ==
  /\ [](\A r \in Workers : UsesCoefficient(r, kl_ctl[r]))
  /\ [][(\E r \in Workers : pc[r] # "done") => kl_ctl' = kl_ctl]_vars

\* C21 witness: a second call, entered with another coefficient than the
\* first, has logged it and built an element whose KL term shows it.
C21_Witness ==
  \E r \in Workers :
    /\ calls = 2
    /\ kl_ctl[r] # 2
    /\ pc[r] = "done"
    /\ Len(stats_logged[r]) = 1
    /\ \E k \in 1..Len(ppo_rl_elements[r]) :
         LET e == ppo_rl_elements[r][k]
         IN /\ Len(e.rewards) >= 2
            /\ KlTerm(e, 1, kl_ctl[r]) # KlTerm(e, 1, 2)

\* ---- the text that is scored and the text that is stored
\* What worker r decodes from its own, unpadded tensors (line 759).
LocalDecode(r) ==
  Decode(loc[r].prompt_tensors, loc[r].samples,
         [i \in 1..Len(loc[r].samples) |-> Len(loc[r].prompt_tensors[1])],
         config.stop_sequences)

\* C22 (as claimed): the output text reward_fn was given for an example is the
\* text its worker decodes locally, and the response stored in the element is
\* that text re-tokenized.
C22_ScoredTextIsStoredText ==
  \A r \in Workers : Built(r) =>
    LET rc == reward_calls[iter[r]]
        B == Len(loc[r].samples)
    IN \A i \in 1..B :
         /\ rc.outputs[r * B + i] = LocalDecode(r)[i].str_output
         /\ TokenizerEncode(rc.outputs[r * B + i]) = DropPad(loc[r].sample_outputs[i])

\* ---- workers in step
\* The iterations a call runs: ceil(num_rollouts / chunk_size).
IterationsOfCall == (config.num_rollouts + config.chunk_size - 1) \div config.chunk_size

\* The collectives worker r has entered, in order.
Collectives(r) ==
  SelectSeq(trace[r], LAMBDA o : o.op \in {"gather", "scatter", "all_reduce"})

AllReturned == \A r \in Workers : pc[r] = "done"

\* Worker r is inside a collective that has not returned yet.
Waits(r) ==
  \/ pc[r] = "gather" /\ ~GatherReady(r)
  \/ pc[r] = "scatter" /\ ~ScatterReady(r)
  \/ pc[r] = "reduce" /\ ~AllReduced(reduce_entered)

\* Worker q has still to enter the collective worker r waits in.
StillToCome(r, q) ==
  /\ ~LoopEnded(q) \/ (pc[r] = "reduce" /\ pc[q] = "summary")
  /\ pc[q] # "raised"
  /\ ~Waits(q)
  /\ pc[r] \in {"gather", "scatter"} => iter[q] <= iter[r]

\* C23: with batches of chunk_size prompts on every worker, each worker runs
\* ceil(num_rollouts / chunk_size) iterations and the workers that have
\* returned have entered the same collectives; a worker that waits in a
\* collective waits for a worker that is on its way to it, so that some
\* worker can always take its next step until all have returned.
C23_WorkersInStep ==
  config.model_arch_type = "causal" =>
    /\ \A r, q \in Workers :
         /\ iter[r] <= IterationsOfCall
         /\ LoopEnded(r) => iter[r] = IterationsOfCall
         /\ (pc[r] = "done" /\ pc[q] = "done") => Collectives(r) = Collectives(q)
    /\ \A r \in Workers : Waits(r) => \E q \in Workers : StillToCome(r, q)
    /\ AllReturned \/ \E r \in Workers : pc[r] # "done" /\ ~Waits(r)

\* C23 witness: two workers have returned from a call of two iterations, each
\* having entered six gathers, two scatters and the all-reduce.
C23_Witness ==
  /\ num_processes = 2
  /\ AllReturned
  /\ iter[0] = 2 /\ iter[1] = 2
  /\ Len(Collectives(0)) = 9 /\ Len(Collectives(1)) = 9

====
